---- MODULE Spec2Model ----
(***************************************************************************)
(* Macro autocomplete front end of                                         *)
(* public/scripts/autocomplete/EnhancedMacroAutoCompleteOption.js:         *)
(* the pure parser parseMacroContext and the three completion options.     *)
(*                                                                         *)
(* Representation.  A text handled by the parser is a sequence of          *)
(* one-character strings (<<"r","o","l","l",":">> is "roll:"); offsets     *)
(* are the 0-based offsets of the JavaScript code, so the character at     *)
(* offset k of s is s[k+1].  Names, paddings and messages of the option    *)
(* classes are never indexed, they are TLA+ strings joined with \o.        *)
(* null and undefined are the strings Null and Undefined, which are no     *)
(* one-character string.                                                   *)
(***************************************************************************)
EXTENDS Integers, Sequences, FiniteSets, TLC

VARIABLES
    macroText,          \* the text between the macro delimiters
    cursorOffset,       \* the caret offset within macroText
    context,            \* the context returned by parseMacroContext
    macro,              \* the macro definition handed to the option constructor
    contextOrOptions,   \* the second constructor argument
    option,             \* the completion option last constructed
    details,            \* the result of renderDetails() of a macro option
    pc,                 \* position of the caller
    env,                \* entrypoint.sh: the WEBDAV_* environment variables
    main,               \* entrypoint.sh: position of the main shell
    loop,               \* entrypoint.sh: position of the background subshell
    elapsed,            \* entrypoint.sh: seconds slept in the current sleep
    ran,                \* entrypoint.sh: the commands completed, in order
    failed              \* entrypoint.sh: the command whose failure ended the main shell

optionVars == <<macroText, cursorOffset, context, macro, contextOrOptions, option, details, pc>>

scriptVars == <<env, main, loop, elapsed, ran, failed>>

vars == <<macroText, cursorOffset, context, macro, contextOrOptions, option, details, pc,
          env, main, loop, elapsed, ran, failed>>

\* ---------------------------------------------------------------- bounds
\* Longest text drawn exhaustively over Alphabet.
MaxLen == 5
\* Largest n of the texts "name" + "::a" repeated n times.
MaxSeps == 3
\* Longest text drawn exhaustively when the context goes on to an option.
MaxOptionLen == 3
\* Largest maxArgs of a macro definition.
MaxArity == 3
\* Largest number of arguments of a context that no parse produced.
MaxDirectArgs == 2
\* Largest number of background uploads followed in a run of entrypoint.sh.
MaxUploads == 2
\* Seconds of sleep that pass in one step of the clock.
TickSeconds == 100

\* ------------------------------------------------------------ characters
\* null where a string is expected, and null where an object is expected.
Null == "null"
NullObject == [null |-> TRUE]
Undefined == "undefined"

\* Characters matched by the regular expression class \s, which are also the
\* characters that trim, trimStart and trimEnd remove: the 25 characters
\* U+0009..U+000D, U+0020, U+00A0, U+1680, U+2000..U+200A, U+2028, U+2029,
\* U+202F, U+205F, U+3000 and U+FEFF.  A character without an escape in a
\* string is written by its code point.
Whitespace ==
    {" ", "\t", "\n", "\r", "\f", "U+000B", "U+00A0", "U+1680",
     "U+2000", "U+2001", "U+2002", "U+2003", "U+2004", "U+2005", "U+2006",
     "U+2007", "U+2008", "U+2009", "U+200A",
     "U+2028", "U+2029", "U+202F", "U+205F", "U+3000", "U+FEFF"}

\* Characters matched by [a-zA-Z].
Letters ==
    {"a","b","c","d","e","f","g","h","i","j","k","l","m",
     "n","o","p","q","r","s","t","u","v","w","x","y","z",
     "A","B","C","D","E","F","G","H","I","J","K","L","M",
     "N","O","P","Q","R","S","T","U","V","W","X","Y","Z"}

\* /[a-zA-Z_]/.test(c) for a one-character c.
IsIdentifierChar(c) == c \in Letters \cup {"_"}

\* /\s/.test(c) for a one-character c.
IsWhitespace(c) == c \in Whitespace

\* The flag symbols of ../macros/engine/MacroFlags.js.
ValidFlagSymbols == {"!", "?", "~", ">", "/", "#"}

\* s[k] of JavaScript: undefined outside the string.
CharAt(s, k) == IF k >= 0 /\ k < Len(s) THEN s[k + 1] ELSE Undefined

\* The clamping of a slice index: a negative index counts from the end.
SliceIndex(s, k) ==
    IF k < 0 THEN (IF Len(s) + k < 0 THEN 0 ELSE Len(s) + k)
    ELSE IF k > Len(s) THEN Len(s) ELSE k

\* s.slice(from)
SliceFrom(s, from) == SubSeq(s, SliceIndex(s, from) + 1, Len(s))

\* s.slice(0, to)
SliceTo(s, to) == SubSeq(s, 1, SliceIndex(s, to))

\* Length of the whitespace run at the start of s.
RECURSIVE LeadingWhitespace(_)
LeadingWhitespace(s) ==
    IF s # <<>> /\ IsWhitespace(Head(s)) THEN 1 + LeadingWhitespace(Tail(s)) ELSE 0

\* Length of the whitespace run at the end of s.
RECURSIVE TrailingWhitespace(_)
TrailingWhitespace(s) ==
    IF s # <<>> /\ IsWhitespace(s[Len(s)])
    THEN 1 + TrailingWhitespace(SubSeq(s, 1, Len(s) - 1))
    ELSE 0

\* s.trimStart(), s.trimEnd(), s.trim()
trimStart(s) == SliceFrom(s, LeadingWhitespace(s))
trimEnd(s) == SliceTo(s, Len(s) - TrailingWhitespace(s))
trim(s) == trimEnd(trimStart(s))

\* s.search(/\s/): offset of the first whitespace character, -1 if none.
searchWhitespace(s) ==
    IF \E k \in 1..Len(s) : IsWhitespace(s[k])
    THEN (CHOOSE k \in 1..Len(s) :
            IsWhitespace(s[k]) /\ \A m \in 1..(k - 1) : ~IsWhitespace(s[m])) - 1
    ELSE -1

\* s.startsWith(':')
startsWithColon(s) == s # <<>> /\ Head(s) = ":"

\* s.replace(/:+$/, ''): s without its trailing colons.
RECURSIVE stripTrailingColons(_)
stripTrailingColons(s) ==
    IF s # <<>> /\ s[Len(s)] = ":"
    THEN stripTrailingColons(SubSeq(s, 1, Len(s) - 1))
    ELSE s

\* macroText.match(/^\s+/)?.[0] ?? ''
leftPadding(s) == SliceTo(s, LeadingWhitespace(s))

\* ---------------------------------------------------------------- parser
\* The loops "while (i < macroText.length && /\s/.test(macroText[i])) i++".
RECURSIVE SkipWhitespace(_, _)
SkipWhitespace(s, i) ==
    IF i < Len(s) /\ IsWhitespace(CharAt(s, i)) THEN SkipWhitespace(s, i + 1) ELSE i

\* Variant of ScanFlags without the closing-tag test: every '/' is a flag.
RECURSIVE ScanFlags_noClosingTag(_, _, _, _)
ScanFlags_noClosingTag(s, i, flags, flagEndPositions) ==
    LET result == [i |-> i, flags |-> flags, flagEndPositions |-> flagEndPositions]
        char == CharAt(s, i)
    IN  IF i >= Len(s) THEN result
        ELSE IF char \in ValidFlagSymbols
             THEN ScanFlags_noClosingTag(s, SkipWhitespace(s, i + 1),
                            Append(flags, char), Append(flagEndPositions, i + 1))
        ELSE result

\* The flag loop: from offset i with the flags consumed so far.
RECURSIVE ScanFlags(_, _, _, _)
ScanFlags(s, i, flags, flagEndPositions) ==
    LET result == [i |-> i, flags |-> flags, flagEndPositions |-> flagEndPositions]
        char == CharAt(s, i)
    IN  IF i >= Len(s) THEN result
        ELSE IF char = "/" /\ i + 1 < Len(s) /\ IsIdentifierChar(CharAt(s, i + 1))
             THEN result
        ELSE IF char \in ValidFlagSymbols
             THEN ScanFlags(s, SkipWhitespace(s, i + 1),
                            Append(flags, char), Append(flagEndPositions, i + 1))
        ELSE result

\* Variant of CurrentFlag that reports the first flag instead of the last.
CurrentFlag_first(flags, flagEndPositions, cursor) ==
    IF Len(flags) > 0
    THEN LET lastFlagEnd == flagEndPositions[Len(flagEndPositions)]
         IN  IF cursor >= lastFlagEnd - 1 THEN flags[1] ELSE Null
    ELSE Null

\* The flag the caret is on, from the consumed flags and their end offsets.
CurrentFlag(flags, flagEndPositions, cursor) ==
    IF Len(flags) > 0
    THEN LET lastFlagEnd == flagEndPositions[Len(flagEndPositions)]
         IN  IF cursor >= lastFlagEnd - 1 THEN flags[Len(flags)] ELSE Null
    ELSE Null

\* The "::" loop over remainingText = macroText.slice(i).
RECURSIVE SplitParts(_, _, _, _, _, _, _)
SplitParts(remainingText, i, j, currentPart, partStart, parts, separatorPositions) ==
    IF j >= Len(remainingText)
    THEN [parts |-> Append(parts, [text |-> currentPart, start |-> partStart,
                                   end |-> i + Len(remainingText)]),
          separatorPositions |-> separatorPositions]
    ELSE IF CharAt(remainingText, j) = ":" /\ CharAt(remainingText, j + 1) = ":"
         THEN SplitParts(remainingText, i, j + 2, <<>>, i + j + 2,
                         Append(parts, [text |-> currentPart, start |-> partStart,
                                        end |-> i + j]),
                         Append(separatorPositions, [start |-> i + j, end |-> i + j + 2]))
    ELSE SplitParts(remainingText, i, j + 1, Append(currentPart, CharAt(remainingText, j)),
                    partStart, parts, separatorPositions)

\* Variant of ArgIndexFromSeparators that numbers the arguments from 1.
RECURSIVE ArgIndexFromSeparators_oneBased(_, _, _, _)
ArgIndexFromSeparators_oneBased(separatorPositions, cursor, sepIdx, currentArgIndex) ==
    IF sepIdx >= Len(separatorPositions) THEN currentArgIndex
    ELSE ArgIndexFromSeparators_oneBased(separatorPositions, cursor, sepIdx + 1,
            IF cursor >= separatorPositions[sepIdx + 1].end THEN sepIdx + 1 ELSE currentArgIndex)

\* Variant of ArgIndexFromSeparators that needs the caret strictly past the separator.
RECURSIVE ArgIndexFromSeparators_strict(_, _, _, _)
ArgIndexFromSeparators_strict(separatorPositions, cursor, sepIdx, currentArgIndex) ==
    IF sepIdx >= Len(separatorPositions) THEN currentArgIndex
    ELSE ArgIndexFromSeparators_strict(separatorPositions, cursor, sepIdx + 1,
            IF cursor > separatorPositions[sepIdx + 1].end THEN sepIdx ELSE currentArgIndex)

\* The loop "for sepIdx ... if (cursorOffset >= sep.end) currentArgIndex = sepIdx".
RECURSIVE ArgIndexFromSeparators(_, _, _, _)
ArgIndexFromSeparators(separatorPositions, cursor, sepIdx, currentArgIndex) ==
    IF sepIdx >= Len(separatorPositions) THEN currentArgIndex
    ELSE ArgIndexFromSeparators(separatorPositions, cursor, sepIdx + 1,
            IF cursor >= separatorPositions[sepIdx + 1].end THEN sepIdx ELSE currentArgIndex)

\* Variant of IsTypingSeparator without the look-behind of two characters.
IsTypingSeparator_noLookBehind(text, cursor, remainingText, identifierStartPos) ==
    /\ Len(remainingText) > 0
    /\ cursor > identifierStartPos
    /\ CharAt(text, cursor - 1) = ":"
    /\ CharAt(text, cursor) # ":"

\* const isTypingSeparator = ... : the caret is right after a single ':'.
IsTypingSeparator(text, cursor, remainingText, identifierStartPos) ==
    /\ Len(remainingText) > 0
    /\ cursor > identifierStartPos
    /\ CharAt(text, cursor - 1) = ":"
    /\ CharAt(text, cursor) # ":"
    /\ (cursor < 2 \/ CharAt(text, cursor - 2) # ":")

\* Variant of SplitsOnSpace that splits also when a separator was seen.
SplitsOnSpace_ignoresSeparators(firstSpaceInIdentifier, separatorPositions) ==
    firstSpaceInIdentifier > 0

\* The guard of the split of the first part into identifier and space argument.
SplitsOnSpace(firstSpaceInIdentifier, separatorPositions) ==
    firstSpaceInIdentifier > 0 /\ Len(separatorPositions) = 0

\* spaceArgText: the content after the identifier's whitespace, if it is content.
SpaceArgText(splitsOnSpace, contentAfterSpace) ==
    IF splitsOnSpace /\ Len(contentAfterSpace) > 0 /\ ~startsWithColon(contentAfterSpace)
    THEN contentAfterSpace
    ELSE <<>>

\* Variant of ArgIndex whose index starts at 0 instead of -1.
ArgIndex_initZero(separatorPositions, spaceArgText, hasSpaceAfterIdentifier, cursor, identifierEndPos) ==
    IF Len(separatorPositions) > 0
    THEN ArgIndexFromSeparators(separatorPositions, cursor, 0, 0)
    ELSE 0

\* currentArgIndex before the separator reset.
ArgIndex(separatorPositions, spaceArgText, hasSpaceAfterIdentifier, cursor, identifierEndPos) ==
    IF Len(separatorPositions) > 0
    THEN ArgIndexFromSeparators(separatorPositions, cursor, 0, -1)
    ELSE IF Len(spaceArgText) > 0 \/ (hasSpaceAfterIdentifier /\ cursor > identifierEndPos)
         THEN 0
    ELSE -1

\* Variant of ResetArgIndex without the reset.
ResetArgIndex_noReset(isTypingSeparator, currentArgIndex) == currentArgIndex

\* The trailing reset "if (isTypingSeparator) currentArgIndex = -1".
ResetArgIndex(isTypingSeparator, currentArgIndex) ==
    IF isTypingSeparator THEN -1 ELSE currentArgIndex

\* Variant of SeparatorArgs that forgets slice(1): the first part is an argument too.
SeparatorArgs_noSlice(parts) == [k \in 1..Len(parts) |-> trim(parts[k].text)]

\* parts.slice(1).map(p => p.text.trim())
SeparatorArgs(parts) == [k \in 1..(Len(parts) - 1) |-> trim(parts[k + 1].text)]

\* args: the separator arguments, the space argument first when present.
BuildArgs(parts, spaceArgText) ==
    IF Len(spaceArgText) > 0 THEN <<spaceArgText>> \o SeparatorArgs(parts)
    ELSE SeparatorArgs(parts)

parseMacroContext(text, cursor) ==
    LET i0 == SkipWhitespace(text, 0)
        scan == ScanFlags(text, i0, <<>>, <<>>)
        i == scan.i
        flags == scan.flags
        currentFlag == CurrentFlag(flags, scan.flagEndPositions, cursor)
        remainingText == SliceFrom(text, i)
        split == SplitParts(remainingText, i, 0, <<>>, i, <<>>, <<>>)
        parts == split.parts
        separatorPositions == split.separatorPositions
        identifierStartPos == parts[1].start
        isInFlagsArea == cursor <= identifierStartPos
        isTypingSeparator == IsTypingSeparator(text, cursor, remainingText, identifierStartPos)
        firstPartText == parts[1].text
        trimmedFirstPart == trimStart(firstPartText)
        firstSpaceInIdentifier == searchWhitespace(trimmedFirstPart)
        splitsOnSpace == SplitsOnSpace(firstSpaceInIdentifier, separatorPositions)
        afterIdentifier == SliceFrom(trimmedFirstPart, firstSpaceInIdentifier)
        contentAfterSpace == trimStart(afterIdentifier)
        identifierOnly ==
            IF splitsOnSpace THEN SliceTo(trimmedFirstPart, firstSpaceInIdentifier)
            ELSE trimEnd(trimmedFirstPart)
        hasSpaceAfterIdentifier == splitsOnSpace /\ Len(afterIdentifier) > 0
        spaceArgText == SpaceArgText(splitsOnSpace, contentAfterSpace)
        identifierEndPos ==
            identifierStartPos + (Len(firstPartText) - Len(trimStart(firstPartText)))
                + Len(identifierOnly)
        argIndex == ArgIndex(separatorPositions, spaceArgText, hasSpaceAfterIdentifier,
                             cursor, identifierEndPos)
        currentArgIndex == ResetArgIndex(isTypingSeparator, argIndex)
        cleanIdentifier == stripTrailingColons(identifierOnly)
        args == BuildArgs(parts, spaceArgText)
    IN  [fullText |-> text,
         cursorOffset |-> cursor,
         paddingBefore |-> leftPadding(text),
         identifier |-> cleanIdentifier,
         identifierStart |-> identifierStartPos,
         isInFlagsArea |-> isInFlagsArea,
         flags |-> flags,
         currentFlag |-> currentFlag,
         args |-> args,
         currentArgIndex |-> currentArgIndex,
         isTypingSeparator |-> isTypingSeparator,
         hasSpaceAfterIdentifier |-> hasSpaceAfterIdentifier,
         hasSpaceArgContent |-> Len(spaceArgText) > 0,
         separatorCount |-> Len(separatorPositions)]

\* ------------------------------------------------------ completion options
\* The fields the constructor of the base class AutoCompleteOption sets.
DefaultSortPriority == 100

AutoCompleteOption(name, typeIcon) ==
    [name |-> name, typeIcon |-> typeIcon, nameOffset |-> 0,
     valueProvider |-> Null, makeSelectable |-> FALSE,
     sortPriority |-> DefaultSortPriority]

\* 'key' in obj
HasKey(obj, key) == key \in DOMAIN obj

\* The test that tells an options object from a context object.
IsOptionsObject(arg) ==
    HasKey(arg, "noBraces") \/ HasKey(arg, "paddingAfter") \/ HasKey(arg, "closeWithBraces")

\* Variant of TakesNoArgs that forgets the list.
TakesNoArgs_ignoresList(m) == m.minArgs = 0 /\ m.maxArgs = 0

\* const takesNoArgs = macro.minArgs === 0 && macro.maxArgs === 0 && macro.list === null
TakesNoArgs(m) == m.minArgs = 0 /\ m.maxArgs = 0 /\ m.list = NullObject

\* new EnhancedMacroAutoCompleteOption(m, arg).  valueProvider holds the string
\* the provider returns: the closure reads only fields that never change.
EnhancedMacroAutoCompleteOption(m, arg) ==
    LET base == AutoCompleteOption(m.name, "macro")
        isObject == arg # NullObject
        isOptions == isObject /\ IsOptionsObject(arg)
        noBraces == IF isOptions /\ HasKey(arg, "noBraces") THEN arg.noBraces ELSE FALSE
        paddingAfter == IF isOptions /\ HasKey(arg, "paddingAfter") THEN arg.paddingAfter ELSE ""
        closeWithBraces == isOptions /\ HasKey(arg, "closeWithBraces") /\ arg.closeWithBraces
        ctx == IF isObject /\ ~isOptions THEN arg ELSE NullObject
        value == m.name \o paddingAfter \o "}}"
        fromOptions == IF closeWithBraces THEN value ELSE base.valueProvider
        provided == fromOptions # Null \/ TakesNoArgs(m)
    IN  [type |-> "macro",
         name |-> base.name,
         typeIcon |-> base.typeIcon,
         nameOffset |-> IF noBraces THEN 0 ELSE 2,
         valueProvider |-> IF provided THEN value ELSE base.valueProvider,
         makeSelectable |-> IF provided THEN TRUE ELSE base.makeSelectable,
         sortPriority |-> base.sortPriority,
         macro |-> m,
         context |-> ctx,
         noBraces |-> noBraces,
         paddingAfter |-> paddingAfter]

\* new MacroFlagAutoCompleteOption(flagDef)
MacroFlagAutoCompleteOption(flagDef) ==
    LET base == AutoCompleteOption(flagDef.type, "flag")
    IN  [type |-> "flag",
         name |-> base.name,
         typeIcon |-> base.typeIcon,
         nameOffset |-> base.nameOffset,
         valueProvider |-> base.valueProvider,
         makeSelectable |-> base.makeSelectable,
         sortPriority |-> base.sortPriority,
         flagDef |-> flagDef]

\* Variant of the closing-tag constructor that forgets the priority.
MacroClosingTagAutoCompleteOption_noPriority(macroName) ==
    LET base == AutoCompleteOption("/" \o macroName, "{/")
    IN  [type |-> "closingTag",
         name |-> base.name,
         typeIcon |-> base.typeIcon,
         nameOffset |-> base.nameOffset,
         valueProvider |-> "/" \o macroName \o "}}",
         makeSelectable |-> TRUE,
         sortPriority |-> base.sortPriority,
         macroName |-> macroName]

\* new MacroClosingTagAutoCompleteOption(macroName)
MacroClosingTagAutoCompleteOption(macroName) ==
    LET base == AutoCompleteOption("/" \o macroName, "{/")
    IN  [type |-> "closingTag",
         name |-> base.name,
         typeIcon |-> base.typeIcon,
         nameOffset |-> base.nameOffset,
         valueProvider |-> "/" \o macroName \o "}}",
         makeSelectable |-> TRUE,
         sortPriority |-> 1,
         macroName |-> macroName]

\* The three warning texts of #getArityWarning.
TooManyArguments(maxArgs, argCount) ==
    "Too many arguments: this macro accepts "
        \o (IF maxArgs = 0 THEN "no arguments"
            ELSE "up to " \o ToString(maxArgs) \o " argument" \o (IF maxArgs = 1 THEN "" ELSE "s"))
        \o ", but " \o ToString(argCount) \o " provided."

NoArgumentsRemoveSpace ==
    "This macro does not accept any arguments. Remove the space or use a different macro."

SpaceSyntaxLimit(name) ==
    "Space-separated syntax only works for macros with up to 2 arguments. "
        \o "Use :: separators instead: {{" \o name \o "::arg1::arg2}}"

NoArguments == "This macro does not accept any arguments."

\* Variant of getArityWarning that tests the space syntax before the count.
getArityWarning_spaceFirst(opt) ==
    IF opt.context = NullObject THEN Null
    ELSE LET argCount == Len(opt.context.args)
             maxArgs == opt.macro.maxArgs
             hasList == opt.macro.list # NullObject
         IN  IF opt.context.hasSpaceArgContent /\ maxArgs = 0
             THEN NoArgumentsRemoveSpace
             ELSE IF opt.context.hasSpaceArgContent /\ ~hasList /\ maxArgs > 2
             THEN SpaceSyntaxLimit(opt.macro.name)
             ELSE IF ~hasList /\ argCount > maxArgs
             THEN TooManyArguments(maxArgs, argCount)
             ELSE IF opt.context.separatorCount > 0 /\ maxArgs = 0
             THEN NoArguments
             ELSE Null

\* #getArityWarning() of the macro option opt.
getArityWarning(opt) ==
    IF opt.context = NullObject THEN Null
    ELSE LET argCount == Len(opt.context.args)
             maxArgs == opt.macro.maxArgs
             hasList == opt.macro.list # NullObject
         IN  IF ~hasList /\ argCount > maxArgs
             THEN TooManyArguments(maxArgs, argCount)
             ELSE IF opt.context.hasSpaceArgContent /\ maxArgs = 0
             THEN NoArgumentsRemoveSpace
             ELSE IF opt.context.hasSpaceArgContent /\ ~hasList /\ maxArgs > 2
             THEN SpaceSyntaxLimit(opt.macro.name)
             ELSE IF opt.context.separatorCount > 0 /\ maxArgs = 0
             THEN NoArguments
             ELSE Null

\* this.#context?.isInScopedContent, a field only the scoped-block tracker adds.
IsInScopedContent(ctx) ==
    ctx # NullObject /\ HasKey(ctx, "isInScopedContent") /\ ctx.isInScopedContent

\* #renderArgumentHint(): the kind of banner, Null for no banner.
renderArgumentHint(opt) ==
    IF opt.context = NullObject THEN Null
    ELSE IF opt.context.currentArgIndex < 0 THEN Null
    ELSE LET isListArg == opt.context.currentArgIndex >= opt.macro.maxArgs
         IN  IF isListArg /\ opt.macro.list = NullObject THEN Null
             ELSE IF isListArg THEN "listItemHint"
             ELSE "argumentHint"

\* Variant of renderDetails that highlights the argument despite a warning.
renderDetails_keepsIndex(opt) ==
    LET warn == getArityWarning(opt)
        currentArgIndex == IF opt.context = NullObject THEN -1
                           ELSE opt.context.currentArgIndex
        hint == IF warn = Null /\ currentArgIndex >= 0 THEN renderArgumentHint(opt) ELSE Null
    IN  [warning |-> warn,
         children |->
            (IF warn # Null THEN <<"warning">> ELSE <<>>)
            \o (IF IsInScopedContent(opt.context) THEN <<"scopedInfo">> ELSE <<>>)
            \o (IF hint # Null THEN <<hint>> ELSE <<>>)
            \o <<"details">>,
         currentArgIndex |-> currentArgIndex]

\* renderDetails(): the warning, the children of the fragment in order, and the
\* currentArgIndex handed to renderMacroDetails.
renderDetails(opt) ==
    LET warn == getArityWarning(opt)
        currentArgIndex == IF opt.context = NullObject THEN -1
                           ELSE opt.context.currentArgIndex
        hint == IF warn = Null /\ currentArgIndex >= 0 THEN renderArgumentHint(opt) ELSE Null
    IN  [warning |-> warn,
         children |->
            (IF warn # Null THEN <<"warning">> ELSE <<>>)
            \o (IF IsInScopedContent(opt.context) THEN <<"scopedInfo">> ELSE <<>>)
            \o (IF hint # Null THEN <<hint>> ELSE <<>>)
            \o <<"details">>,
         currentArgIndex |-> IF warn # Null THEN -1 ELSE currentArgIndex]

\* ---------------------------------------------------------------- inputs
\* Characters of the exhaustively drawn texts: a letter, the underscore, the
\* space and the form feed as whitespace, the colon and three flag symbols.
Alphabet == {"a", "_", " ", "\f", ":", "/", "!", "?"}

AllTexts(n) == UNION {[1..k -> Alphabet] : k \in 0..n}

RECURSIVE Repeat(_, _)
Repeat(s, n) == IF n = 0 THEN <<>> ELSE s \o Repeat(s, n - 1)

\* "name" + "::a".repeat(n)
SeparatorText(n) == <<"n", "a", "m", "e">> \o Repeat(<<":", ":", "a">>, n)

\* The texts the specification's examples name.
ExampleTexts ==
    {<<"g","e","t","v","a","r"," ","m","y","v","a","r">>,
     <<"g","e","t","v","a","r",":",":","m","y","v","a","r">>,
     <<"r","o","l","l",":">>,
     <<"/","r","o","l","l">>,
     <<"!","?">>}

Texts == AllTexts(MaxLen) \cup {SeparatorText(n) : n \in 0..MaxSeps} \cup ExampleTexts

OptionTexts ==
    AllTexts(MaxOptionLen) \cup {SeparatorText(n) : n \in 0..MaxSeps} \cup ExampleTexts

\* Macro definitions of the registry: minArgs <= maxArgs, list null or a descriptor.
ListDescriptor == [min |-> 0, max |-> Null]

MacroDefinitions ==
    {[name |-> "roll", minArgs |-> lo, maxArgs |-> hi, list |-> l] :
        lo \in 0..MaxArity, hi \in 0..MaxArity, l \in {NullObject, ListDescriptor}}
    \ {d \in [name : {"roll"}, minArgs : 0..MaxArity, maxArgs : 0..MaxArity,
              list : {NullObject, ListDescriptor}] : d.minArgs > d.maxArgs}

\* Options objects: every non-empty choice of the three optional keys.
OptionKeys == {"noBraces", "paddingAfter", "closeWithBraces"}

OptionsObjects ==
    {[k \in keys |-> [noBraces |-> nb, paddingAfter |-> pad, closeWithBraces |-> close][k]] :
        keys \in (SUBSET OptionKeys) \ {{}},
        nb \in BOOLEAN, pad \in {"", " "}, close \in BOOLEAN}

\* Contexts handed to the constructor directly, with any combination of the
\* fields the option reads; the scoped-block tracker's field is present.
DirectContexts ==
    {[identifier |-> <<"r","o","l","l">>,
      args |-> [k \in 1..n |-> <<"a">>],
      currentArgIndex |-> idx,
      hasSpaceArgContent |-> sp,
      separatorCount |-> sc,
      isInScopedContent |-> scoped,
      scopedMacroName |-> "if"] :
        n \in 0..MaxDirectArgs, idx \in -1..MaxDirectArgs, sp \in BOOLEAN,
        sc \in 0..MaxDirectArgs, scoped \in BOOLEAN}

FlagDefinitions ==
    {[type |-> sym, name |-> "Flag", description |-> "", implemented |-> impl,
      affectsParser |-> FALSE] : sym \in {"!", "?", "/"}, impl \in BOOLEAN}

ScopedMacroNames == {"if", "roll"}

\* ------------------------------------------------------------ state machine
NothingBuilt ==
    /\ context = NullObject
    /\ macro = NullObject
    /\ contextOrOptions = NullObject
    /\ option = NullObject
    /\ details = NullObject

\* No command of the start-up script's main shell has failed: the script is
\* running, or has become the server.
NoFailure == "none"

\* The start-up script is not part of a keystroke.
ScriptNotRun ==
    /\ env = NullObject
    /\ main = "off"
    /\ loop = "off"
    /\ elapsed = 0
    /\ ran = <<>>
    /\ failed = NoFailure

\* A keystroke inside a macro: the text and the caret of the editor.
Init ==
    /\ macroText \in Texts
    /\ cursorOffset \in 0..Len(macroText)
    /\ NothingBuilt
    /\ ScriptNotRun
    /\ pc = "typed"

\* Either a keystroke inside a macro, or a caller that builds options
\* without parsing ("idle").
InitOptions ==
    /\ \/ /\ macroText \in OptionTexts
          /\ cursorOffset \in 0..Len(macroText)
          /\ pc = "typed"
       \/ /\ macroText = <<>>
          /\ cursorOffset = 0
          /\ pc = "idle"
    /\ NothingBuilt
    /\ ScriptNotRun

\* The caller parses the text between the delimiters.
ParseMacroContext ==
    /\ pc = "typed"
    /\ context' = parseMacroContext(macroText, cursorOffset)
    /\ pc' = "parsed"
    /\ UNCHANGED <<macroText, cursorOffset, macro, contextOrOptions, option, details>>
    /\ UNCHANGED scriptVars

\* A macro option is built: with the parsed context after a parse, with null,
\* an options object or a context of the caller's otherwise.
ConstructMacroOption ==
    /\ pc \in {"parsed", "idle"}
    /\ \E m \in MacroDefinitions :
       \E arg \in (IF pc = "parsed" THEN {context}
                   ELSE {NullObject} \cup OptionsObjects \cup DirectContexts) :
            /\ macro' = m
            /\ contextOrOptions' = arg
            /\ option' = EnhancedMacroAutoCompleteOption(m, arg)
    /\ pc' = "constructed"
    /\ UNCHANGED <<macroText, cursorOffset, context, details>>
    /\ UNCHANGED scriptVars

ConstructFlagOption ==
    /\ pc = "idle"
    /\ \E flagDef \in FlagDefinitions :
            option' = MacroFlagAutoCompleteOption(flagDef)
    /\ pc' = "constructed"
    /\ UNCHANGED <<macroText, cursorOffset, context, macro, contextOrOptions, details>>
    /\ UNCHANGED scriptVars

ConstructClosingTagOption ==
    /\ pc = "idle"
    /\ \E macroName \in ScopedMacroNames :
            option' = MacroClosingTagAutoCompleteOption(macroName)
    /\ pc' = "constructed"
    /\ UNCHANGED <<macroText, cursorOffset, context, macro, contextOrOptions, details>>
    /\ UNCHANGED scriptVars

\* The completion widget shows the details panel of a macro option.
RenderDetails ==
    /\ pc = "constructed"
    /\ option.type = "macro"
    /\ details' = renderDetails(option)
    /\ pc' = "rendered"
    /\ UNCHANGED <<macroText, cursorOffset, context, macro, contextOrOptions, option>>
    /\ UNCHANGED scriptVars

Next == ParseMacroContext

Spec == Init /\ [][Next]_vars

NextOptions ==
    \/ ParseMacroContext
    \/ ConstructMacroOption
    \/ ConstructFlagOption
    \/ ConstructClosingTagOption
    \/ RenderDetails

SpecOptions == InitOptions /\ [][NextOptions]_vars

\* ---------------------------------------------------------- entrypoint.sh
\* The script runs under "set -e": a simple command that fails ends the shell
\* that runs it, a command tested by "if" does not.  Every command outside a
\* test succeeds or fails: envsubst, sed, echo (a write error on stdout), the
\* rclone commands, sleep and exec (node not found).  ran lists the rclone
\* commands, the sleeps and the server start in the order in which they
\* completed.

\* sleep 300
SleepSeconds == 300

\* The first command of the body of "while true; do ... done".
LoopEntry_syncFirst == "sync"

LoopEntry == "sleep"

Environments ==
    [WEBDAV_URL : {"", "https://dav"}, WEBDAV_USER : {"", "user"}, WEBDAV_PASS : {"", "pass"}]

\* [ -n "$WEBDAV_URL" ] && [ -n "$WEBDAV_USER" ] && [ -n "$WEBDAV_PASS" ]
WebdavConfigured(e) == e.WEBDAV_URL # "" /\ e.WEBDAV_USER # "" /\ e.WEBDAV_PASS # ""

\* The number of uploads completed or attempted so far.
Uploads(log) == Len(SelectSeq(log, LAMBDA c : c = "rclone sync data webdav"))

InitEntrypoint ==
    /\ env \in Environments
    /\ main = "start"
    /\ loop = "off"
    /\ elapsed = 0
    /\ ran = <<>>
    /\ failed = NoFailure
    /\ macroText = <<>>
    /\ cursorOffset = 0
    /\ NothingBuilt
    /\ pc = "entrypoint"

\* Steps 1 and 2: envsubst and the four sed commands; a failure of one of
\* them (a missing template, envsubst or sed exiting non-zero) ends the script.
GenerateConfig ==
    /\ main = "start"
    /\ \/ /\ main' = "test"
          /\ failed' = failed
       \/ /\ main' = "exited"
          /\ failed' \in {"envsubst", "sed"}
    /\ UNCHANGED <<env, loop, elapsed, ran>>
    /\ UNCHANGED optionVars

\* The test succeeds: the echo of line 15, then rclone obscure (in the command
\* substitution) and rclone config create; a failing echo ends the script
\* before any rclone command, a failing config create ends it after.
CreateRemote ==
    /\ main = "test"
    /\ WebdavConfigured(env)
    /\ \E echoed \in BOOLEAN, ok \in BOOLEAN :
            IF echoed
            THEN /\ ran' = ran \o <<"rclone obscure", "rclone config create">>
                 /\ main' = IF ok THEN "list" ELSE "exited"
                 /\ failed' = IF ok THEN failed ELSE "rclone config create"
            ELSE /\ ran' = ran
                 /\ main' = "exited"
                 /\ failed' = "echo"
    /\ UNCHANGED <<env, loop, elapsed>>
    /\ UNCHANGED optionVars

\* The test fails: the else branch echoes (line 41); a failing echo ends the
\* script.
SkipWebdav ==
    /\ main = "test"
    /\ ~WebdavConfigured(env)
    /\ \E echoed \in BOOLEAN :
            /\ main' = IF echoed THEN "exec" ELSE "exited"
            /\ failed' = IF echoed THEN failed ELSE "echo"
    /\ UNCHANGED <<env, loop, elapsed, ran>>
    /\ UNCHANGED optionVars

\* if rclone ls webdav:/SillyTavernData: the remote data exists or not, then
\* the echo of line 25 or of line 28; when the data does not exist the restore
\* is skipped.  A failing echo ends the script.
ListRemote ==
    /\ main = "list"
    /\ \E found \in BOOLEAN, echoed \in BOOLEAN :
            /\ main' = IF ~echoed THEN "exited"
                       ELSE IF found THEN "restore" ELSE "fork"
            /\ ran' = ran \o <<"rclone ls">>
                          \o (IF echoed /\ ~found THEN <<"restore skipped">> ELSE <<>>)
            /\ failed' = IF echoed THEN failed ELSE "echo"
    /\ UNCHANGED <<env, loop, elapsed>>
    /\ UNCHANGED optionVars

\* rclone sync webdav:/SillyTavernData /home/node/app/data; a failure ends the script.
Restore ==
    /\ main = "restore"
    /\ \E ok \in BOOLEAN :
            /\ main' = IF ok THEN "fork" ELSE "exited"
            /\ ran' = ran \o (IF ok THEN <<"rclone sync webdav data">>
                              ELSE <<"rclone sync webdav data failed">>)
            /\ failed' = IF ok THEN failed ELSE "rclone sync"
    /\ UNCHANGED <<env, loop, elapsed>>
    /\ UNCHANGED optionVars

\* The echo of line 32, then ( while true; do ... done ) &; a failing echo
\* ends the script before the subshell is started.
StartBackgroundSync ==
    /\ main = "fork"
    /\ \E echoed \in BOOLEAN :
            IF echoed
            THEN /\ main' = "exec"
                 /\ loop' = LoopEntry
                 /\ failed' = failed
            ELSE /\ main' = "exited"
                 /\ loop' = loop
                 /\ failed' = "echo"
    /\ elapsed' = 0
    /\ UNCHANGED <<env, ran>>
    /\ UNCHANGED optionVars

\* exec node server.js: the shell becomes the server, or exits when node
\* cannot be executed.
StartServer ==
    /\ main = "exec"
    /\ \E ok \in BOOLEAN :
            /\ main' = IF ok THEN "server" ELSE "exited"
            /\ ran' = IF ok THEN ran \o <<"node server.js">> ELSE ran
            /\ failed' = IF ok THEN failed ELSE "exec"
    /\ UNCHANGED <<env, loop, elapsed>>
    /\ UNCHANGED optionVars

\* Time passes while the subshell sleeps.
Tick ==
    /\ loop = "sleep"
    /\ elapsed < SleepSeconds
    /\ elapsed' = IF elapsed + TickSeconds > SleepSeconds THEN SleepSeconds
                  ELSE elapsed + TickSeconds
    /\ UNCHANGED <<env, main, loop, ran, failed>>
    /\ UNCHANGED optionVars

\* sleep 300 ends: it returns after the full time, followed by the echo of
\* line 36, or it fails (sleep not found, sleep interrupted) at any time.  A
\* failing sleep or echo ends the subshell.
SleepDone ==
    /\ loop = "sleep"
    /\ \/ /\ elapsed = SleepSeconds
          /\ ran' = ran \o <<"sleep">>
          /\ \E echoed \in BOOLEAN : loop' = IF echoed THEN "sync" ELSE "exited"
       \/ /\ ran' = ran
          /\ loop' = "exited"
    /\ elapsed' = 0
    /\ UNCHANGED <<env, main, failed>>
    /\ UNCHANGED optionVars

\* rclone sync /home/node/app/data webdav:/SillyTavernData; a failure ends the
\* subshell, which inherits "set -e".
Upload ==
    /\ loop = "sync"
    /\ Uploads(ran) < MaxUploads
    /\ ran' = ran \o <<"rclone sync data webdav">>
    /\ \E ok \in BOOLEAN : loop' = IF ok THEN LoopEntry ELSE "exited"
    /\ UNCHANGED <<env, main, elapsed, failed>>
    /\ UNCHANGED optionVars

\* The commands of the main shell, and those of the background subshell.
MainShell ==
    \/ GenerateConfig
    \/ CreateRemote
    \/ SkipWebdav
    \/ ListRemote
    \/ Restore
    \/ StartBackgroundSync
    \/ StartServer

BackgroundShell ==
    \/ Tick
    \/ SleepDone
    \/ Upload

NextEntrypoint == MainShell \/ BackgroundShell

\* The main shell runs its next command whenever it has one.
SpecEntrypoint == InitEntrypoint /\ [][NextEntrypoint]_vars /\ WF_vars(MainShell)

\* ------------------------------------------------------- parser properties
Parsed == pc = "parsed"

ContextFields ==
    {"fullText", "cursorOffset", "paddingBefore", "identifier", "identifierStart",
     "isInFlagsArea", "flags", "currentFlag", "args", "currentArgIndex",
     "isTypingSeparator", "hasSpaceAfterIdentifier", "hasSpaceArgContent",
     "separatorCount"}

\* The characters of s at the 0-based offsets from..(to - 1).
Between(s, from, to) == IF to <= from THEN <<>> ELSE SubSeq(s, from + 1, to)

\* C1: parseMacroContext returns a complete context for every text and every
\* caret in 0..text.length: every field is present and within its range, the
\* inputs are echoed back, and the empty text with caret 0 gives identifier "",
\* no flags, no args and currentArgIndex = -1.
C1_ParseIsTotal ==
    Parsed =>
        /\ DOMAIN context = ContextFields
        /\ context.fullText = macroText
        /\ context.cursorOffset = cursorOffset
        /\ context.identifierStart \in 0..Len(macroText)
        /\ Len(context.paddingBefore) \in 0..context.identifierStart
        /\ Len(context.identifier) \in 0..Len(macroText)
        /\ Len(context.flags) \in 0..context.identifierStart
        /\ context.currentFlag \in ValidFlagSymbols \cup {Null}
        /\ context.currentArgIndex \in -1..Len(macroText)
        /\ context.separatorCount \in 0..Len(macroText)
        /\ Len(context.args) \in 0..Len(macroText)
        /\ context.isInFlagsArea \in BOOLEAN
        /\ context.isTypingSeparator \in BOOLEAN
        /\ context.hasSpaceAfterIdentifier \in BOOLEAN
        /\ context.hasSpaceArgContent \in BOOLEAN
        /\ (macroText = <<>> =>
                /\ context.identifier = <<>>
                /\ context.flags = <<>>
                /\ context.args = <<>>
                /\ context.currentArgIndex = -1)

C1_Witness ==
    /\ Parsed
    /\ macroText = <<>>
    /\ cursorOffset = 0
    /\ context.identifier = <<>>
    /\ context.currentArgIndex = -1

\* A non-empty word without whitespace and without a colon.
IsPlainWord(w) == w # <<>> /\ \A k \in 1..Len(w) : ~IsWhitespace(w[k]) /\ w[k] # ":"

\* C2: with the caret at the end of the text, w + " " + a and w + "::" + a
\* (w and a plain words, w not starting with a flag symbol) both parse to
\* identifier = w, args = [a] and currentArgIndex = 0.
C2_SpaceAndSeparatorAgree ==
    (Parsed /\ cursorOffset = Len(macroText)) =>
        \A k \in 1..Len(macroText) :
            LET w == Between(macroText, 0, k)
                spaceArg == Between(macroText, k + 1, Len(macroText))
                sepArg == Between(macroText, k + 2, Len(macroText))
                normal(a) == /\ context.identifier = w
                             /\ context.args = <<a>>
                             /\ context.currentArgIndex = 0
            IN  (IsPlainWord(w) /\ w[1] \notin ValidFlagSymbols) =>
                    /\ (CharAt(macroText, k) = " " /\ IsPlainWord(spaceArg))
                            => normal(spaceArg)
                    /\ (CharAt(macroText, k) = ":" /\ CharAt(macroText, k + 1) = ":"
                            /\ IsPlainWord(sepArg))
                            => normal(sepArg)

C2_Witness ==
    /\ Parsed
    /\ macroText = <<"g","e","t","v","a","r",":",":","m","y","v","a","r">>
    /\ cursorOffset = 13
    /\ context.identifier = <<"g","e","t","v","a","r">>
    /\ context.args = << <<"m","y","v","a","r">> >>
    /\ context.currentArgIndex = 0
    /\ context.separatorCount = 1

\* C3: a context with isTypingSeparator = true has currentArgIndex = -1, and
\* "roll:" with the caret at 5 is such a context.
C3_SeparatorExcludesArgument ==
    Parsed =>
        /\ context.isTypingSeparator => context.currentArgIndex = -1
        /\ (macroText = <<"r","o","l","l",":">> /\ cursorOffset = 5)
                => (context.isTypingSeparator /\ context.currentArgIndex = -1)

\* The caret is right after a single colon that follows a completed separator.
C3_Witness ==
    /\ Parsed
    /\ context.isTypingSeparator
    /\ context.separatorCount > 0
    /\ cursorOffset > context.identifierStart + 2
    /\ context.currentArgIndex = -1

\* C4: "name" followed by n times "::a", caret at the end, has
\* separatorCount = n and n args.
C4_SeparatorCount ==
    Parsed =>
        \A n \in 0..MaxSeps :
            (macroText = SeparatorText(n) /\ cursorOffset = Len(macroText)) =>
                /\ context.separatorCount = n
                /\ Len(context.args) = n

C4_Witness ==
    /\ Parsed
    /\ macroText = SeparatorText(MaxSeps)
    /\ cursorOffset = Len(macroText)
    /\ context.separatorCount = MaxSeps
    /\ Len(context.args) = MaxSeps

\* A '/' at offset p that is immediately followed by a letter or '_'.
IsClosingTagAt(s, p) ==
    CharAt(s, p) = "/" /\ p + 1 < Len(s) /\ IsIdentifierChar(CharAt(s, p + 1))

\* The flag symbols of s, in order.
FlagSymbolsOf(s) == SelectSeq(s, LAMBDA c : c \in ValidFlagSymbols)

\* C5: the flags are exactly the flag symbols before identifierStart, none of
\* them is a '/' immediately followed by a letter or '_', and the first such
\* '/' that follows only whitespace and flag symbols is where the identifier
\* starts; "/roll" has no flags.
C5_ClosingTagIsNoFlag ==
    Parsed =>
        /\ context.flags = FlagSymbolsOf(Between(macroText, 0, context.identifierStart))
        /\ \A p \in 0..(context.identifierStart - 1) : ~IsClosingTagAt(macroText, p)
        /\ \A p \in 0..(Len(macroText) - 1) :
              ( /\ IsClosingTagAt(macroText, p)
                /\ \A q \in 0..(p - 1) :
                      /\ ~IsClosingTagAt(macroText, q)
                      /\ (IsWhitespace(CharAt(macroText, q))
                            \/ CharAt(macroText, q) \in ValidFlagSymbols) )
              => context.identifierStart = p
        /\ macroText = <<"/","r","o","l","l">> => context.flags = <<>>

\* A closing tag after an earlier flag and whitespace.
C5_Witness ==
    /\ Parsed
    /\ context.flags # <<>>
    /\ context.identifierStart >= 2
    /\ IsClosingTagAt(macroText, context.identifierStart)
    /\ IsWhitespace(CharAt(macroText, context.identifierStart - 1))

\* End offset of the last flag symbol before identStart (0 if there is none).
LastFlagEnd(s, identStart) ==
    LET ends == {k \in 1..identStart : s[k] \in ValidFlagSymbols}
    IN  IF ends = {} THEN 0 ELSE CHOOSE k \in ends : \A m \in ends : m <= k

\* C6: a currentFlag that is not null is the last flag, a caret at the end
\* offset of the last flag has that flag as currentFlag, and "!?" with the
\* caret at 2 has currentFlag = "?".
C6_CurrentFlagIsLast ==
    Parsed =>
        /\ context.currentFlag # Null =>
                (context.flags # <<>> /\ context.currentFlag = context.flags[Len(context.flags)])
        /\ (context.flags # <<>>
                /\ cursorOffset = LastFlagEnd(macroText, context.identifierStart))
                => context.currentFlag = context.flags[Len(context.flags)]
        /\ (macroText = <<"!","?">> /\ cursorOffset = 2) => context.currentFlag = "?"

\* Two different flags, the caret right after the second.
C6_Witness ==
    /\ Parsed
    /\ Len(context.flags) >= 2
    /\ context.flags[1] # context.flags[Len(context.flags)]
    /\ cursorOffset = LastFlagEnd(macroText, context.identifierStart)
    /\ context.currentFlag = context.flags[Len(context.flags)]

\* ------------------------------------------------------- option properties
\* A macro option whose details panel has been rendered.
Rendered == pc = "rendered"

\* A macro option has been constructed (and nothing rendered yet).
MacroConstructed == pc = "constructed" /\ option.type = "macro"

\* C7: the warning of a macro option that holds a context is the one of the
\* first matching rule among: (1) no list and more args than maxArgs: too many
\* arguments, worded by the limit; (2) space argument and maxArgs = 0: no
\* arguments; (3) space argument, no list and maxArgs > 2: space syntax limit;
\* (4) a separator and maxArgs = 0: no arguments; no rule: no warning.  An
\* option without a context has no warning.
C7_FirstMatchingRule ==
    Rendered =>
        IF option.context = NullObject THEN details.warning = Null
        ELSE LET ctx == option.context
                 n == Len(ctx.args)
                 maxArgs == macro.maxArgs
                 noList == macro.list = NullObject
                 limit == CASE maxArgs = 0 -> "no arguments"
                            [] maxArgs = 1 -> "up to 1 argument"
                            [] OTHER -> "up to " \o ToString(maxArgs) \o " arguments"
                 rule1 == noList /\ n > maxArgs
                 rule2 == ctx.hasSpaceArgContent /\ maxArgs = 0
                 rule3 == ctx.hasSpaceArgContent /\ noList /\ maxArgs > 2
                 rule4 == ctx.separatorCount > 0 /\ maxArgs = 0
             IN  /\ rule1 => details.warning =
                        "Too many arguments: this macro accepts " \o limit
                            \o ", but " \o ToString(n) \o " provided."
                 /\ (~rule1 /\ rule2) => details.warning =
                        "This macro does not accept any arguments. Remove the space or use a different macro."
                 /\ (~rule1 /\ ~rule2 /\ rule3) => details.warning =
                        "Space-separated syntax only works for macros with up to 2 arguments. Use :: separators instead: {{roll::arg1::arg2}}"
                 /\ (~rule1 /\ ~rule2 /\ ~rule3 /\ rule4) => details.warning =
                        "This macro does not accept any arguments."
                 /\ (~rule1 /\ ~rule2 /\ ~rule3 /\ ~rule4) => details.warning = Null

\* A parsed space argument on a macro without arguments and without list:
\* rules (1) and (2) both match and the warning is the one of rule (1).
C7_Witness ==
    /\ Rendered
    /\ option.context = context
    /\ context # NullObject
    /\ context.hasSpaceArgContent
    /\ macro.maxArgs = 0
    /\ macro.list = NullObject
    /\ details.warning = "Too many arguments: this macro accepts no arguments, but 1 provided."

\* C8 as stated: with maxArgs = 0, every context with a space argument gets the
\* no-arguments warning of the space rule, and every context with
\* separatorCount = 1 (and no space argument) the one of the separator rule.
C8_NoArgumentWarnings ==
    (Rendered /\ option.context # NullObject /\ macro.maxArgs = 0) =>
        /\ option.context.hasSpaceArgContent => details.warning = NoArgumentsRemoveSpace
        /\ (option.context.separatorCount = 1 /\ ~option.context.hasSpaceArgContent)
                => details.warning = NoArguments

\* C8 amended: with maxArgs = 0 the no-arguments warnings are given when the
\* too-many-arguments rule does not match (the macro has a list, or args is
\* empty); on a macro without list every context with an argument, so every
\* parsed context with a space argument or a separator, gets the
\* too-many-arguments warning worded "no arguments".
C8_NoArgumentWarningsAfterCount ==
    (Rendered /\ option.context # NullObject /\ macro.maxArgs = 0) =>
        LET ctx == option.context
            counted == macro.list = NullObject /\ Len(ctx.args) > 0
        IN  /\ (ctx.hasSpaceArgContent /\ ~counted) => details.warning = NoArgumentsRemoveSpace
            /\ (ctx.separatorCount = 1 /\ ~ctx.hasSpaceArgContent /\ ~counted)
                    => details.warning = NoArguments
            /\ counted => details.warning =
                    "Too many arguments: this macro accepts no arguments, but "
                        \o ToString(Len(ctx.args)) \o " provided."
            /\ (option.context = context
                    /\ (ctx.hasSpaceArgContent \/ ctx.separatorCount >= 1)
                    /\ macro.list = NullObject)
                    => counted

\* A parsed separator on a macro with a list and maxArgs = 0.
C8_Witness ==
    /\ Rendered
    /\ option.context = context
    /\ context # NullObject
    /\ context.separatorCount = 1
    /\ macro.maxArgs = 0
    /\ macro.list # NullObject
    /\ details.warning = NoArguments

\* C9: a macro option has a valueProvider exactly when it was constructed with
\* closeWithBraces or its macro has minArgs = 0, maxArgs = 0 and no list; then
\* makeSelectable is true and the provider returns name + paddingAfter + "}}",
\* paddingAfter being "" unless an options object supplies it; otherwise
\* valueProvider is null and makeSelectable false.
C9_ValueProvider ==
    MacroConstructed =>
        LET arg == contextOrOptions
            isOptions == \E key \in OptionKeys : key \in DOMAIN arg
            closeWithBraces == IF "closeWithBraces" \in DOMAIN arg
                               THEN arg.closeWithBraces ELSE FALSE
            paddingAfter == IF "paddingAfter" \in DOMAIN arg THEN arg.paddingAfter ELSE ""
            noArguments == macro.minArgs = 0 /\ macro.maxArgs = 0 /\ macro.list = NullObject
        IN  /\ (closeWithBraces \/ noArguments) =>
                    /\ option.valueProvider = macro.name \o paddingAfter \o "}}"
                    /\ option.makeSelectable
            /\ ~(closeWithBraces \/ noArguments) =>
                    /\ option.valueProvider = Null
                    /\ ~option.makeSelectable
            /\ ~isOptions => option.paddingAfter = ""

\* closeWithBraces with a padding on a macro that takes arguments.
C9_Witness ==
    /\ MacroConstructed
    /\ macro.maxArgs > 0
    /\ "closeWithBraces" \in DOMAIN contextOrOptions
    /\ "paddingAfter" \in DOMAIN contextOrOptions
    /\ contextOrOptions.closeWithBraces
    /\ option.valueProvider = "roll }}"
    /\ option.makeSelectable

\* C10: a closing-tag option for m has name "/" + m, sortPriority 1,
\* makeSelectable true and a provider returning "/" + m + "}}"; every macro
\* option and flag option keeps the default sortPriority, which is greater.
C10_ClosingTagFirst ==
    pc = "constructed" =>
        /\ option.type = "closingTag" =>
                /\ \E m \in ScopedMacroNames :
                        /\ option.macroName = m
                        /\ option.name = "/" \o m
                        /\ option.valueProvider = "/" \o m \o "}}"
                /\ option.makeSelectable
                /\ option.sortPriority = 1
        /\ option.type \in {"macro", "flag"} =>
                /\ option.sortPriority = DefaultSortPriority
                /\ 1 < option.sortPriority

C10_Witness ==
    /\ pc = "constructed"
    /\ option.type = "closingTag"
    /\ option.name = "/if"
    /\ option.valueProvider = "/if}}"
    /\ option.sortPriority = 1

\* ------------------------------------------------ parser properties, continued
\* C11: currentArgIndex is -1 whenever the caret is at or before the end of
\* the identifier, in particular whenever isInFlagsArea holds.
C11_IdentifierCaretHasNoArgument ==
    Parsed =>
        /\ cursorOffset <= context.identifierStart + Len(context.identifier)
                => context.currentArgIndex = -1
        /\ context.isInFlagsArea => context.currentArgIndex = -1

\* C12: currentFlag is the last flag exactly when there is a flag and the caret
\* is at the end offset of the last flag or one before it; in particular it is
\* null for every caret outside the flags area.
C12_CurrentFlagOnlyAtLastFlag ==
    Parsed =>
        LET lastFlagEnd == LastFlagEnd(macroText, context.identifierStart)
        IN  /\ (context.currentFlag # Null) <=>
                    (context.flags # <<>> /\ cursorOffset \in {lastFlagEnd - 1, lastFlagEnd})
            /\ ~context.isInFlagsArea => context.currentFlag = Null

\* C13: no element of args starts or ends with a whitespace character.
C13_ArgsAreTrimmed ==
    Parsed =>
        \A k \in 1..Len(context.args) :
            LET a == context.args[k]
            IN  a # <<>> => (~IsWhitespace(a[1]) /\ ~IsWhitespace(a[Len(a)]))

\* Number of consecutive colons that end right before offset p.
RECURSIVE ColonsBefore(_, _)
ColonsBefore(s, p) ==
    IF p > 0 /\ CharAt(s, p - 1) = ":" THEN 1 + ColonsBefore(s, p - 1) ELSE 0

\* End offsets of the separators of s: a "::" that starts an even number of
\* colons into its run of colons (":::" is one separator and a lone colon).
SeparatorEnds(s) ==
    {p + 2 : p \in {q \in 0..(Len(s) - 2) :
                        /\ CharAt(s, q) = ":"
                        /\ CharAt(s, q + 1) = ":"
                        /\ ColonsBefore(s, q) % 2 = 0}}

\* C14: with at least one separator and no separator being typed,
\* currentArgIndex is the index of the last separator that ends at or before
\* the caret, -1 if there is none.
C14_ArgumentIndexFollowsSeparators ==
    (Parsed /\ SeparatorEnds(macroText) # {} /\ ~context.isTypingSeparator) =>
        /\ context.separatorCount = Cardinality(SeparatorEnds(macroText))
        /\ context.currentArgIndex =
                Cardinality({e \in SeparatorEnds(macroText) : e <= cursorOffset}) - 1

\* The caret is exactly at the end of the second of at least two separators,
\* the first of which is followed by a third colon.
C14_Witness ==
    /\ Parsed
    /\ ~context.isTypingSeparator
    /\ context.separatorCount >= 2
    /\ context.currentArgIndex = 1
    /\ cursorOffset \in SeparatorEnds(macroText)
    /\ \E e \in SeparatorEnds(macroText) : e < cursorOffset /\ CharAt(macroText, e) = ":"

\* C15: isTypingSeparator holds exactly when the character before the caret is
\* a colon, the character at the caret is not and the character two before
\* the caret is not.
C15_TypingSeparatorIsLocal ==
    Parsed =>
        (context.isTypingSeparator <=>
            /\ CharAt(macroText, cursorOffset - 1) = ":"
            /\ CharAt(macroText, cursorOffset) # ":"
            /\ CharAt(macroText, cursorOffset - 2) # ":")

\* A single colon right after flags, the caret one past the identifier start.
C15_Witness ==
    /\ Parsed
    /\ context.isTypingSeparator
    /\ context.flags # <<>>
    /\ cursorOffset = context.identifierStart + 1
    /\ cursorOffset < Len(macroText)

\* C16: a context with a space argument has no separator, has
\* hasSpaceAfterIdentifier and exactly one argument; every other context has
\* as many arguments as separators.
C16_SyntaxesAreExclusive ==
    Parsed =>
        IF context.hasSpaceArgContent
        THEN /\ context.separatorCount = 0
             /\ context.hasSpaceAfterIdentifier
             /\ Len(context.args) = 1
             /\ context.args[1] # <<>>
        ELSE Len(context.args) = context.separatorCount

\* A space argument that itself contains whitespace.
C16_Witness ==
    /\ Parsed
    /\ context.hasSpaceArgContent
    /\ Len(context.args) = 1
    /\ \E k \in 1..Len(context.args[1]) : IsWhitespace(context.args[1][k])
    /\ context.separatorCount = 0

\* ------------------------------------------------ option properties, continued
\* Place of a child of the details fragment in the fixed order.
ChildRank(child) ==
    CASE child = "warning" -> 1
      [] child = "scopedInfo" -> 2
      [] child \in {"argumentHint", "listItemHint"} -> 3
      [] child = "details" -> 4

\* C17: the children of the details fragment are, in this order, the warning
\* banner, the scoped-content banner, the argument hint and the definition
\* details; the hint is there exactly when there is no warning,
\* currentArgIndex >= 0 and (currentArgIndex < maxArgs or the macro has a
\* list); the index handed to the shared renderer is -1 with a warning and
\* the context's currentArgIndex otherwise, -1 without a context, and an
\* option built from an options object has no context.
C17_DetailsOrder ==
    Rendered =>
        LET children == details.children
            has(c) == \E k \in 1..Len(children) : children[k] = c
            noContext == option.context = NullObject
            index == IF noContext THEN -1 ELSE option.context.currentArgIndex
            warned == details.warning # Null
            scoped == IF noContext \/ "isInScopedContent" \notin DOMAIN option.context
                      THEN FALSE ELSE option.context.isInScopedContent
            hinted == has("argumentHint") \/ has("listItemHint")
        IN  /\ \A k \in 1..(Len(children) - 1) :
                    ChildRank(children[k]) < ChildRank(children[k + 1])
            /\ children[Len(children)] = "details"
            /\ has("warning") <=> warned
            /\ has("scopedInfo") <=> scoped
            /\ hinted <=> (/\ ~warned
                           /\ index >= 0
                           /\ (index >= macro.maxArgs => macro.list # NullObject))
            /\ details.currentArgIndex = (IF warned THEN -1 ELSE index)
            /\ (\E key \in OptionKeys : key \in DOMAIN contextOrOptions)
                    => (noContext /\ details.currentArgIndex = -1)

\* A warning on a context whose caret is in an argument, inside scoped content:
\* both banners, no hint, and no argument highlighted.
C17_Witness ==
    /\ Rendered
    /\ option.context # NullObject
    /\ option.context.currentArgIndex >= 0
    /\ details.warning # Null
    /\ details.children = <<"warning", "scopedInfo", "details">>
    /\ details.currentArgIndex = -1

\* ------------------------------------------------- entrypoint.sh properties
RcloneCommands ==
    {"rclone obscure", "rclone config create", "rclone ls", "rclone sync webdav data",
     "rclone sync webdav data failed", "rclone sync data webdav"}

\* The restore step has finished or has been skipped among the first n commands.
RestoreSettled(n) ==
    \E j \in 1..n : ran[j] \in {"rclone sync webdav data", "restore skipped"}

Sleeps(log) == Len(SelectSeq(log, LAMBDA c : c = "sleep"))

\* The order of the start-up script in a state of a run.
StartupOrder ==
    /\ \A i \in 1..Len(ran) :
            ran[i] = "rclone sync data webdav"
                => /\ RestoreSettled(i - 1)
                   /\ \E j \in 1..(i - 1) : ran[j] = "sleep"
    /\ loop = "sync" => (RestoreSettled(Len(ran)) /\ Sleeps(ran) > Uploads(ran))
    /\ Uploads(ran) <= Sleeps(ran)
    /\ \A i \in 1..Len(ran) :
            (ran[i] = "node server.js" /\ WebdavConfigured(env)) => RestoreSettled(i - 1)
    /\ (main \in {"exec", "server"} /\ WebdavConfigured(env)) => RestoreSettled(Len(ran))
    /\ ~WebdavConfigured(env)
            => /\ \A i \in 1..Len(ran) : ran[i] \notin RcloneCommands
               /\ loop = "off"

\* When a variable is empty the WebDAV block is the echo of line 41 alone: the
\* script goes from the test to line 46, and what can end it are the commands
\* outside the block and that echo.
SkipsToServer ==
    ~WebdavConfigured(env)
        => /\ main \in {"start", "test", "exec", "server", "exited"}
           /\ failed \in {NoFailure, "envsubst", "sed", "echo", "exec"}

\* The script has no exit of its own: the main shell ends only as the server,
\* or by set -e on a command that failed.
EndsOnlyByFailure == main = "exited" <=> failed # NoFailure

====
